---------------------------- MODULE Spec2Model ----------------------------
(***************************************************************************)
(* A model of the shunting-yard expression parser of src/shuntingyard.rs.  *)
(*                                                                         *)
(* The parser is a recursive-descent driver (parse_e / parse_p) over two   *)
(* stacks, op_stack and exp_stack.  The recursion of the Rust code is      *)
(* modelled by an explicit call stack of frames; every frame names the     *)
(* function it belongs to and the place where that function resumes.       *)
(* A parse call ends in one of three ways: Ok(tree), Err(error) or a       *)
(* panic (unwrap on None, assert!, panic!).                                *)
(***************************************************************************)
EXTENDS Integers, Sequences, FiniteSets, TLC

VARIABLES
    input,      \* the text handed to parse, as the symbols the lexer will cut it into
    lexpos,     \* lexer cursor: how many tokens the lexer has delivered
    next,       \* ShuntingYard.next, the lookahead token
    op_stack,   \* ShuntingYard.op_stack
    exp_stack,  \* ShuntingYard.exp_stack
    stack,      \* the call stack of the recursive descent
    result,     \* what parse returned (or how it died)
    pc,         \* "start" before the call, "run" during it, "done" after it
    trace,      \* history: the two stacks after every step of the call
    marks,      \* history: for every open group, the two stacks when it was opened
    calls,      \* the calls of parse on this text that have returned before this one
    first       \* history: the trace and the result of the first call

vars == <<input, lexpos, next, op_stack, exp_stack, stack, result, pc,
          trace, marks, calls, first>>

---------------------------------------------------------------------------
(* Bounds of the model *)

\* every stream of at most MaxLen symbols over the whole alphabet is an input
MaxLen == 4
\* binary-operator chains  v op v op ... v  with at most MaxOps operators
MaxOps == 3
\* chains of at most MaxPow `^` operators, and of at most MaxPow prefix minus
MaxPow == 4

\* The position of the outer Sentinel, u32::max_value().  Positions are never
\* computed with, only stored and copied; TLC's integers end at 2^31 - 1, so
\* the model takes the largest of them: as in the code, it is the largest
\* position there is and no token of an input carries it.
U32Max == 2147483647

---------------------------------------------------------------------------
(* Sequences *)

Last(s) == s[Len(s)]
Front(s) == SubSeq(s, 1, Len(s) - 1)

---------------------------------------------------------------------------
(* Tokens and the lexer.  The lexer is an external collaborator: it cuts   *)
(* the text into Number, Ident, OpSingle and End tokens, each with its     *)
(* position, or fails.  A symbol of the input stands for one token:        *)
(*   "n" a number literal, "x" an identifier, "?" text the lexer rejects,  *)
(*   anything else a single-character operator.                            *)

Values == {"n", "x"}
OPS_BINARY == {"+", "-", "*", "/", "^"}
OPS_PREFIX == {"-"}
Alphabet == Values \cup OPS_BINARY \cup {"(", ")", "!", "?"}

Token(typ, val, pos) == [typ |-> typ, val |-> val, pos |-> pos]
NoToken == Token("None", "", 0)

\* The token a symbol stands for, at position p.
TokenOf(sym, p) ==
    CASE sym = "n" -> Token("Number", sym, p)
      [] sym = "x" -> Token("Ident", sym, p)
      [] sym = "?" -> Token("LexError", sym, p)
      [] OTHER     -> Token("OpSingle", sym, p)

\* Lexer::next_token after k tokens were delivered: the next token of the
\* text, End once the text is exhausted.
next_token(text, k) ==
    IF k < Len(text) THEN TokenOf(text[k + 1], k + 1)
    ELSE Token("End", "", Len(text) + 1)

---------------------------------------------------------------------------
(* enum Op *)

Op(kind, ch, pos) == [kind |-> kind, ch |-> ch, pos |-> pos]
Sentinel(pos) == Op("Sentinel", "", pos)
NoOp == Op("None", "", 0)

\* is_sentinel(&self.op_stack.last()): false on None
is_sentinel(ops) == ops # <<>> /\ Last(ops).kind = "Sentinel"

is_binary(ch) == ch \in OPS_BINARY
is_prefix(ch) == ch \in OPS_PREFIX

\* assoc without the arm for `^`: every binary operator is left-associative
assoc_left(op) ==
    IF op.kind = "Binary"
    THEN IF op.ch \in {"+", "-", "*", "/", "^"} THEN "Left" ELSE "panic"
    ELSE "panic"

\* assoc: "Right" for ^, "Left" for + - * /, and a panic for everything else
assoc(op) ==
    IF op.kind = "Binary"
    THEN IF op.ch = "^" THEN "Right"
         ELSE IF op.ch \in {"+", "-", "*", "/"} THEN "Left" ELSE "panic"
    ELSE "panic"

\* prec with `*` and `/` entered at the precedence of `+` and `-`
prec_flat(op) ==
    CASE op.kind = "Sentinel" -> 0
      [] op.kind = "Binary" /\ op.ch \in {"+", "-", "*", "/"} -> 1
      [] op.kind = "Prefix" /\ op.ch = "-" -> 3
      [] op.kind = "Binary" /\ op.ch = "^" -> 4
      [] OTHER -> -1

\* prec with the prefix minus entered above `^`
prec_prefix_first(op) ==
    CASE op.kind = "Sentinel" -> 0
      [] op.kind = "Binary" /\ op.ch \in {"+", "-"} -> 1
      [] op.kind = "Binary" /\ op.ch \in {"*", "/"} -> 2
      [] op.kind = "Binary" /\ op.ch = "^" -> 3
      [] op.kind = "Prefix" /\ op.ch = "-" -> 4
      [] OTHER -> -1

\* prec with the Sentinel entered above every operator
prec_sentinel_first(op) ==
    CASE op.kind = "Sentinel" -> 5
      [] op.kind = "Binary" /\ op.ch \in {"+", "-"} -> 1
      [] op.kind = "Binary" /\ op.ch \in {"*", "/"} -> 2
      [] op.kind = "Prefix" /\ op.ch = "-" -> 3
      [] op.kind = "Binary" /\ op.ch = "^" -> 4
      [] OTHER -> -1

\* prec with the prefix minus entered below `*` and `/`
prec_prefix_low(op) ==
    CASE op.kind = "Sentinel" -> 0
      [] op.kind = "Prefix" /\ op.ch = "-" -> 1
      [] op.kind = "Binary" /\ op.ch \in {"+", "-"} -> 2
      [] op.kind = "Binary" /\ op.ch \in {"*", "/"} -> 3
      [] op.kind = "Binary" /\ op.ch = "^" -> 4
      [] OTHER -> -1

\* prec: the precedence table; -1 stands for the panic of the last arm
prec(op) ==
    CASE op.kind = "Sentinel" -> 0
      [] op.kind = "Binary" /\ op.ch \in {"+", "-"} -> 1
      [] op.kind = "Binary" /\ op.ch \in {"*", "/"} -> 2
      [] op.kind = "Prefix" /\ op.ch = "-" -> 3
      [] op.kind = "Binary" /\ op.ch = "^" -> 4
      [] OTHER -> -1

\* has_greater_prec without the tie rule: prec1 > prec2 alone
has_greater_prec_strict(op1, op2) ==
    IF prec(op1) < 0 \/ prec(op2) < 0 THEN "panic_prec"
    ELSE IF prec(op1) > prec(op2) THEN "true" ELSE "false"

\* has_greater_prec(op1, op2): "true", "false", or the panic it dies of.
\* assoc(op1) is evaluated only when the precedences are equal.
has_greater_prec(op1, op2) ==
    LET prec1 == prec(op1)
        prec2 == prec(op2)
    IN  IF prec1 < 0 \/ prec2 < 0 THEN "panic_prec"
        ELSE IF prec1 > prec2 THEN "true"
        ELSE IF prec1 = prec2
             THEN IF assoc(op1) = "panic" THEN "panic_assoc"
                  ELSE IF assoc(op1) = "Left" THEN "true" ELSE "false"
        ELSE "false"

---------------------------------------------------------------------------
(* AstNode *)

AstNode(typ, val, pos, kids) == [typ |-> typ, val |-> val, pos |-> pos, kids |-> kids]
Number(v, pos) == AstNode("Number", v, pos, <<>>)
Ident(s, pos) == AstNode("Ident", s, pos, <<>>)
Binary(ch, t0, t, pos) == AstNode("Binary", ch, pos, <<t0, t>>)
Prefix(ch, t, pos) == AstNode("Prefix", ch, pos, <<t>>)
Postfix(ch, t, pos) == AstNode("Postfix", ch, pos, <<t>>)
Parens(t, pos) == AstNode("Parens", "", pos, <<t>>)

---------------------------------------------------------------------------
(* Results *)

Result(kind, src, expected, actual, tree) ==
    [kind |-> kind, src |-> src, expected |-> expected, actual |-> actual, tree |-> tree]
NoResult == Result("None", "", "", NoToken, <<>>)
Ok(t) == Result("Ok", "", "", NoToken, <<t>>)
\* ParseError::Parse built by expect: expected type, actual type and position
ExpectError(expected, tok) == Result("Err", "expect", expected, tok, <<>>)
\* ParseError::Parse built by parse_p
UnaryError(tok) == Result("Err", "parse_p", "unary operator", tok, <<>>)
UnexpectedError(tok) == Result("Err", "parse_p", "", tok, <<>>)
\* the lexer's error, passed on by try!
LexError(tok) == Result("Err", "lexer", "", tok, <<>>)
Panic(why) == Result("Panic", why, "", NoToken, <<>>)

---------------------------------------------------------------------------
(* pop_operator on the two stacks: the stacks it leaves and the panic it   *)
(* dies of ("" when it returns).                                           *)

Popped(why, ops, exps) == [panic |-> why, ops |-> ops, exps |-> exps]

\* pop_operator that reads the operator with last() and leaves it on the stack
pop_operator_leave(ops, exps) ==
    IF ops = <<>> THEN Popped("unwrap", ops, exps)
    ELSE LET op == Last(ops)
         IN  IF exps = <<>> THEN Popped("unwrap", ops, exps)
             ELSE LET t == Last(exps)
                      exps1 == Front(exps)
                  IN  CASE op.kind = "Binary" ->
                             IF exps1 = <<>> THEN Popped("unwrap", ops, exps1)
                             ELSE Popped("", ops,
                                         Append(Front(exps1),
                                                Binary(op.ch, Last(exps1), t, op.pos)))
                        [] op.kind = "Prefix" ->
                             Popped("", ops, Append(exps1, Prefix(op.ch, t, op.pos)))
                        [] op.kind = "Postfix" ->
                             Popped("", ops, Append(exps1, Postfix(op.ch, t, op.pos)))
                        [] OTHER -> Popped("sentinel", ops, exps1)

\* pop_operator that reads the left operand of a Binary without popping it
pop_operator_keep(ops, exps) ==
    IF ops = <<>> THEN Popped("unwrap", ops, exps)
    ELSE LET op == Last(ops)
             ops1 == Front(ops)
         IN  IF exps = <<>> THEN Popped("unwrap", ops1, exps)
             ELSE LET t == Last(exps)
                      exps1 == Front(exps)
                  IN  CASE op.kind = "Binary" ->
                             IF exps1 = <<>> THEN Popped("unwrap", ops1, exps1)
                             ELSE Popped("", ops1,
                                         Append(exps1, Binary(op.ch, Last(exps1), t, op.pos)))
                        [] op.kind = "Prefix" ->
                             Popped("", ops1, Append(exps1, Prefix(op.ch, t, op.pos)))
                        [] op.kind = "Postfix" ->
                             Popped("", ops1, Append(exps1, Postfix(op.ch, t, op.pos)))
                        [] OTHER -> Popped("sentinel", ops1, exps1)

pop_operator(ops, exps) ==
    IF ops = <<>> THEN Popped("unwrap", ops, exps)
    ELSE LET op == Last(ops)
             ops1 == Front(ops)
         IN  IF exps = <<>> THEN Popped("unwrap", ops1, exps)
             ELSE LET t == Last(exps)
                      exps1 == Front(exps)
                  IN  CASE op.kind = "Binary" ->
                             IF exps1 = <<>> THEN Popped("unwrap", ops1, exps1)
                             ELSE Popped("", ops1,
                                         Append(Front(exps1),
                                                Binary(op.ch, Last(exps1), t, op.pos)))
                        [] op.kind = "Prefix" ->
                             Popped("", ops1, Append(exps1, Prefix(op.ch, t, op.pos)))
                        [] op.kind = "Postfix" ->
                             Popped("", ops1, Append(exps1, Postfix(op.ch, t, op.pos)))
                        [] OTHER -> Popped("sentinel", ops1, exps1)

---------------------------------------------------------------------------
(* The call stack *)

Frame(fn, at, op, pos) == [fn |-> fn, at |-> at, op |-> op, pos |-> pos]
F(fn, at) == Frame(fn, at, NoOp, 0)

Running(fn, at) == pc = "run" /\ stack # <<>> /\ Last(stack).fn = fn /\ Last(stack).at = at

\* the running function goes on at `cont` after calling `callee`
Call(cont, callee) == Append(Append(Front(stack), cont), callee)
\* the running function returns Ok(())
Return == Front(stack)

\* parse returns res (an error passed up by try!, or its own value) or panics
Finish(res) ==
    /\ result' = res
    /\ pc' = "done"
    /\ stack' = <<>>

\* the groups that are open: `(` consumed, `)` not yet accepted
OpenGroups ==
    Cardinality({i \in DOMAIN stack : stack[i].fn = "parse_p" /\ stack[i].at = "paren"})

\* The history of a step: the stacks it leaves are added to the trace; a step
\* that opens a group notes the stacks it found, the step that closes the
\* group drops the note.
Record ==
    /\ trace' = Append(trace, <<op_stack', exp_stack'>>)
    /\ marks' = IF pc' # "run" THEN marks
                ELSE IF OpenGroups' > OpenGroups
                     THEN Append(marks, [ops |-> op_stack, exps |-> exp_stack])
                ELSE IF OpenGroups' < OpenGroups THEN Front(marks)
                ELSE marks
    /\ UNCHANGED <<calls, first>>

---------------------------------------------------------------------------
(* Inputs *)

\* every stream of at most n symbols
Streams(n) == UNION {[1..k -> Alphabet] : k \in 0..n}

\* v op v op ... v with k binary operators
RECURSIVE Chains(_)
Chains(k) ==
    IF k = 0 THEN {<<v>> : v \in Values}
    ELSE {s \o <<op, v>> : s \in Chains(k - 1), op \in OPS_BINARY, v \in Values}

\* v ^ v ^ ... ^ v with k operators
RECURSIVE Powers(_)
Powers(k) ==
    IF k = 0 THEN {<<v>> : v \in Values}
    ELSE {s \o <<"^", v>> : s \in Powers(k - 1), v \in Values}

\* - - ... - v with k prefix operators
RECURSIVE Minuses(_)
Minuses(k) ==
    IF k = 0 THEN {<<v>> : v \in Values}
    ELSE {<<"-">> \o s : s \in Minuses(k - 1)}

\* ( a op1 b ) op2 c   and   a op1 ( b op2 c )
Groups ==
    UNION {{<<"(", a, op1, b, ")", op2, c>>, <<a, op1, "(", b, op2, c, ")">>} :
             a \in Values, b \in Values, c \in Values,
             op1 \in OPS_BINARY, op2 \in OPS_BINARY}

\* v op ... v op - v : a chain of k operators, the last operand negated
Signed(k) == {s \o <<op, "-", v>> : s \in Chains(k - 1), op \in OPS_BINARY, v \in Values}

\* a op1 ( b op2 - c )
SignedGroups ==
    {<<a, op1, "(", b, op2, "-", c, ")">> :
        a \in Values, b \in Values, c \in Values,
        op1 \in OPS_BINARY, op2 \in OPS_BINARY}

\* ( ( ... v ... ) ) : a value in k groups
RECURSIVE Nested(_)
Nested(k) ==
    IF k = 0 THEN {<<v>> : v \in Values}
    ELSE {<<"(">> \o s \o <<")">> : s \in Nested(k - 1)}

Inputs ==
    Streams(MaxLen)
    \cup UNION {Chains(k) : k \in 0..MaxOps}
    \cup UNION {Signed(k) : k \in 1..(MaxOps - 1)}
    \cup UNION {Powers(k) : k \in 0..MaxPow}
    \cup UNION {Minuses(k) : k \in 0..MaxPow}
    \cup UNION {Nested(k) : k \in 0..MaxPow}
    \cup Groups
    \cup SignedGroups

---------------------------------------------------------------------------
(* The state before parse is called *)

Init ==
    /\ input \in Inputs
    /\ lexpos = 0
    /\ next = NoToken
    /\ op_stack = <<>>
    /\ exp_stack = <<>>
    /\ stack = <<>>
    /\ result = NoResult
    /\ pc = "start"
    /\ trace = <<>>
    /\ marks = <<>>
    /\ calls = 0
    /\ first = [trace |-> <<>>, result |-> NoResult]

---------------------------------------------------------------------------
\* parse that goes on with the expression stack it finds in memory
parse_stale ==
    /\ pc = "start"
    /\ LET tok == next_token(input, 0)
       IN  IF tok.typ = "LexError"
           THEN /\ Finish(LexError(tok))
                /\ lexpos' = 1
                /\ UNCHANGED <<input, next, op_stack, exp_stack>>
           ELSE /\ next' = tok
                /\ lexpos' = 1
                /\ op_stack' = <<Sentinel(U32Max)>>
                /\ exp_stack' = exp_stack
                /\ stack' = <<F("parse", "entry")>>
                /\ pc' = "run"
                /\ UNCHANGED <<input, result>>

(* pub fn parse: a new lexer on the text, the lookahead primed, the         *)
(* operator stack seeded with the outer Sentinel, a new expression stack,  *)
(* and the call of ShuntingYard::parse.                                    *)

parse ==
    /\ pc = "start"
    /\ LET tok == next_token(input, 0)
       IN  IF tok.typ = "LexError"
           THEN /\ Finish(LexError(tok))
                /\ lexpos' = 1
                /\ UNCHANGED <<input, next, op_stack, exp_stack>>
           ELSE /\ next' = tok
                /\ lexpos' = 1
                /\ op_stack' = <<Sentinel(U32Max)>>
                /\ exp_stack' = <<>>
                /\ stack' = <<F("parse", "entry")>>
                /\ pc' = "run"
                /\ UNCHANGED <<input, result>>

(* ShuntingYard::parse, line 71: try!(self.parse_e()) *)
ShuntingYard_parse ==
    /\ Running("parse", "entry")
    /\ stack' = Call(F("parse", "expect_end"), F("parse_e", "entry"))
    /\ UNCHANGED <<input, lexpos, next, op_stack, exp_stack, result, pc>>

(* ShuntingYard::parse, lines 72-75: expect(End), the two assert_eq! and   *)
(* the return of the root.                                                 *)
ShuntingYard_parse_end ==
    /\ Running("parse", "expect_end")
    /\ UNCHANGED input
    /\ IF next.typ # "End"
       THEN /\ Finish(ExpectError("End", next))
            /\ UNCHANGED <<lexpos, next, op_stack, exp_stack>>
       ELSE LET tok == next_token(input, lexpos)
            IN  /\ lexpos' = lexpos + 1
                /\ IF tok.typ = "LexError"
                   THEN /\ Finish(LexError(tok))
                        /\ UNCHANGED <<next, op_stack, exp_stack>>
                   ELSE /\ next' = tok
                        /\ op_stack' = op_stack
                        /\ IF Len(exp_stack) # 1
                           THEN Finish(Panic("assert_exp_stack")) /\ exp_stack' = exp_stack
                           ELSE IF Len(op_stack) # 1
                           THEN Finish(Panic("assert_op_stack")) /\ exp_stack' = exp_stack
                           ELSE Finish(Ok(Last(exp_stack))) /\ exp_stack' = Front(exp_stack)

---------------------------------------------------------------------------
(* parse_e *)

(* line 94: try!(self.parse_p()) *)
parse_e ==
    /\ Running("parse_e", "entry")
    /\ stack' = Call(F("parse_e", "loop"), F("parse_p", "entry"))
    /\ UNCHANGED <<input, lexpos, next, op_stack, exp_stack, result, pc>>

(* lines 95-97: the loop test; on a binary operator, push_operator is called *)
parse_e_loop ==
    /\ Running("parse_e", "loop")
    /\ stack' = IF next.typ = "OpSingle" /\ is_binary(next.val)
                THEN Call(F("parse_e", "consume"),
                          Frame("push_operator", "loop", Op("Binary", next.val, next.pos), 0))
                ELSE Append(Front(stack), F("parse_e", "unwind"))
    /\ UNCHANGED <<input, lexpos, next, op_stack, exp_stack, result, pc>>

\* parse_e_consume without the try! around consume: after a lexer error it
\* goes on with the old lookahead
parse_e_consume_on ==
    /\ Running("parse_e", "consume")
    /\ LET tok == next_token(input, lexpos)
       IN  /\ lexpos' = lexpos + 1
           /\ next' = IF tok.typ = "LexError" THEN next ELSE tok
           /\ stack' = Call(F("parse_e", "loop"), F("parse_p", "entry"))
           /\ UNCHANGED <<result, pc>>
    /\ UNCHANGED <<input, op_stack, exp_stack>>

(* lines 98-99: try!(self.consume()); try!(self.parse_p()) *)
parse_e_consume ==
    /\ Running("parse_e", "consume")
    /\ LET tok == next_token(input, lexpos)
       IN  /\ lexpos' = lexpos + 1
           /\ IF tok.typ = "LexError"
              THEN Finish(LexError(tok)) /\ next' = next
              ELSE /\ next' = tok
                   /\ stack' = Call(F("parse_e", "loop"), F("parse_p", "entry"))
                   /\ UNCHANGED <<result, pc>>
    /\ UNCHANGED <<input, op_stack, exp_stack>>

(* lines 101-103: one iteration of the unwind loop *)
parse_e_unwind ==
    /\ Running("parse_e", "unwind")
    /\ ~is_sentinel(op_stack)
    /\ LET r == pop_operator(op_stack, exp_stack)
       IN  /\ op_stack' = r.ops
           /\ exp_stack' = r.exps
           /\ IF r.panic # "" THEN Finish(Panic(r.panic))
              ELSE UNCHANGED <<stack, result, pc>>
    /\ UNCHANGED <<input, lexpos, next>>

(* lines 101, 104: a Sentinel is on top, parse_e returns Ok(()) *)
parse_e_return ==
    /\ Running("parse_e", "unwind")
    /\ is_sentinel(op_stack)
    /\ stack' = Return
    /\ UNCHANGED <<input, lexpos, next, op_stack, exp_stack, result, pc>>

---------------------------------------------------------------------------
(* parse_p *)

\* the leaf node of a Number or Ident token
Leaf(tok) == IF tok.typ = "Number" THEN Number(tok.val, tok.pos) ELSE Ident(tok.val, tok.pos)

(* lines 109-116: a Number or an Ident is pushed, then consumed *)
parse_p_value ==
    /\ Running("parse_p", "entry")
    /\ next.typ \in {"Number", "Ident"}
    /\ exp_stack' = Append(exp_stack, Leaf(next))
    /\ LET tok == next_token(input, lexpos)
       IN  /\ lexpos' = lexpos + 1
           /\ IF tok.typ = "LexError"
              THEN Finish(LexError(tok)) /\ next' = next
              ELSE /\ next' = tok
                   /\ stack' = Return
                   /\ UNCHANGED <<result, pc>>
    /\ UNCHANGED <<input, op_stack>>

\* parse_p_paren that remembers the position of the token after `(`
parse_p_paren_pos ==
    /\ Running("parse_p", "entry")
    /\ next.typ = "OpSingle" /\ next.val = "("
    /\ LET tok == next_token(input, lexpos)
       IN  /\ lexpos' = lexpos + 1
           /\ IF tok.typ = "LexError"
              THEN /\ Finish(LexError(tok))
                   /\ UNCHANGED <<next, op_stack>>
              ELSE /\ next' = tok
                   /\ op_stack' = Append(op_stack, Sentinel(tok.pos))
                   /\ stack' = Call(Frame("parse_p", "paren", NoOp, tok.pos),
                                    F("parse_e", "entry"))
                   /\ UNCHANGED <<result, pc>>
    /\ UNCHANGED <<input, exp_stack>>

\* parse_p_paren without line 119: no Sentinel bounds the group
parse_p_paren_open ==
    /\ Running("parse_p", "entry")
    /\ next.typ = "OpSingle" /\ next.val = "("
    /\ LET tok == next_token(input, lexpos)
       IN  /\ lexpos' = lexpos + 1
           /\ IF tok.typ = "LexError"
              THEN /\ Finish(LexError(tok))
                   /\ UNCHANGED next
              ELSE /\ next' = tok
                   /\ stack' = Call(Frame("parse_p", "paren", NoOp, next.pos),
                                    F("parse_e", "entry"))
                   /\ UNCHANGED <<result, pc>>
    /\ UNCHANGED <<input, op_stack, exp_stack>>

(* lines 117-120: `(` is consumed, a Sentinel is pushed, parse_e is called *)
parse_p_paren ==
    /\ Running("parse_p", "entry")
    /\ next.typ = "OpSingle" /\ next.val = "("
    /\ LET tok == next_token(input, lexpos)
       IN  /\ lexpos' = lexpos + 1
           /\ IF tok.typ = "LexError"
              THEN /\ Finish(LexError(tok))
                   /\ UNCHANGED <<next, op_stack>>
              ELSE /\ next' = tok
                   /\ op_stack' = Append(op_stack, Sentinel(next.pos))
                   /\ stack' = Call(Frame("parse_p", "paren", NoOp, next.pos),
                                    F("parse_e", "entry"))
                   /\ UNCHANGED <<result, pc>>
    /\ UNCHANGED <<input, exp_stack>>

\* parse_p_paren_close without line 122: the group's Sentinel stays
parse_p_paren_close_keep ==
    /\ Running("parse_p", "paren")
    /\ UNCHANGED <<input, op_stack>>
    /\ IF ~(next.typ = "OpSingle" /\ next.val = ")")
       THEN /\ Finish(ExpectError(")", next))
            /\ UNCHANGED <<lexpos, next, exp_stack>>
       ELSE LET tok == next_token(input, lexpos)
            IN  /\ lexpos' = lexpos + 1
                /\ IF tok.typ = "LexError"
                   THEN /\ Finish(LexError(tok))
                        /\ UNCHANGED <<next, exp_stack>>
                   ELSE /\ next' = tok
                        /\ IF exp_stack = <<>>
                           THEN Finish(Panic("unwrap")) /\ exp_stack' = exp_stack
                           ELSE /\ exp_stack' = Append(Front(exp_stack),
                                          Parens(Last(exp_stack), Last(stack).pos))
                                /\ stack' = Return
                                /\ UNCHANGED <<result, pc>>

(* lines 121-125: expect(`)`), the Sentinel is popped, the node is wrapped *)
parse_p_paren_close ==
    /\ Running("parse_p", "paren")
    /\ UNCHANGED input
    /\ IF ~(next.typ = "OpSingle" /\ next.val = ")")
       THEN /\ Finish(ExpectError(")", next))
            /\ UNCHANGED <<lexpos, next, op_stack, exp_stack>>
       ELSE LET tok == next_token(input, lexpos)
            IN  /\ lexpos' = lexpos + 1
                /\ IF tok.typ = "LexError"
                   THEN /\ Finish(LexError(tok))
                        /\ UNCHANGED <<next, op_stack, exp_stack>>
                   ELSE /\ next' = tok
                        /\ IF op_stack = <<>>
                           THEN /\ Finish(Panic("unwrap"))
                                /\ UNCHANGED <<op_stack, exp_stack>>
                           ELSE /\ op_stack' = Front(op_stack)
                                /\ IF exp_stack = <<>>
                                   THEN Finish(Panic("unwrap")) /\ exp_stack' = exp_stack
                                   ELSE /\ exp_stack' = Append(Front(exp_stack),
                                                  Parens(Last(exp_stack), Last(stack).pos))
                                        /\ stack' = Return
                                        /\ UNCHANGED <<result, pc>>

(* lines 126-130: any other single-character operator; a prefix operator   *)
(* goes to push_operator, everything else is an error                      *)
parse_p_op ==
    /\ Running("parse_p", "entry")
    /\ next.typ = "OpSingle" /\ next.val # "("
    /\ IF ~is_prefix(next.val)
       THEN Finish(UnaryError(next))
       ELSE /\ stack' = Call(F("parse_p", "consume"),
                             Frame("push_operator", "loop", Op("Prefix", next.val, next.pos), 0))
            /\ UNCHANGED <<result, pc>>
    /\ UNCHANGED <<input, lexpos, next, op_stack, exp_stack>>

(* lines 131-132: try!(self.consume()); try!(self.parse_p()) *)
parse_p_consume ==
    /\ Running("parse_p", "consume")
    /\ LET tok == next_token(input, lexpos)
       IN  /\ lexpos' = lexpos + 1
           /\ IF tok.typ = "LexError"
              THEN Finish(LexError(tok)) /\ next' = next
              ELSE /\ next' = tok
                   /\ stack' = Call(F("parse_p", "return"), F("parse_p", "entry"))
                   /\ UNCHANGED <<result, pc>>
    /\ UNCHANGED <<input, op_stack, exp_stack>>

(* line 138 after the prefix arm: Ok(()) *)
parse_p_return ==
    /\ Running("parse_p", "return")
    /\ stack' = Return
    /\ UNCHANGED <<input, lexpos, next, op_stack, exp_stack, result, pc>>

(* lines 134-136: any other token (End) *)
parse_p_unexpected ==
    /\ Running("parse_p", "entry")
    /\ next.typ \notin {"Number", "Ident", "OpSingle"}
    /\ Finish(UnexpectedError(next))
    /\ UNCHANGED <<input, lexpos, next, op_stack, exp_stack>>

---------------------------------------------------------------------------
(* push_operator *)

\* top_operator: self.op_stack.last().unwrap()
top_operator(ops) == IF ops = <<>> THEN NoOp ELSE Last(ops)

\* the loop test of line 160: "true", "false" or the panic it dies of
push_test(ops, op) ==
    IF ops = <<>> THEN "panic_unwrap" ELSE has_greater_prec(top_operator(ops), op)

(* lines 160-161: the top operator binds tighter and is reduced *)
push_operator_pop ==
    /\ Running("push_operator", "loop")
    /\ push_test(op_stack, Last(stack).op) = "true"
    /\ LET r == pop_operator(op_stack, exp_stack)
       IN  /\ op_stack' = r.ops
           /\ exp_stack' = r.exps
           /\ IF r.panic # "" THEN Finish(Panic(r.panic))
              ELSE UNCHANGED <<stack, result, pc>>
    /\ UNCHANGED <<input, lexpos, next>>

(* lines 160, 163: the operator is pushed *)
push_operator_push ==
    /\ Running("push_operator", "loop")
    /\ push_test(op_stack, Last(stack).op) = "false"
    /\ op_stack' = Append(op_stack, Last(stack).op)
    /\ stack' = Return
    /\ UNCHANGED <<input, lexpos, next, exp_stack, result, pc>>

(* line 160: the comparison itself panics (prec, assoc or unwrap) *)
push_operator_panic ==
    /\ Running("push_operator", "loop")
    /\ push_test(op_stack, Last(stack).op) \notin {"true", "false"}
    /\ Finish(Panic(push_test(op_stack, Last(stack).op)))
    /\ UNCHANGED <<input, lexpos, next, op_stack, exp_stack>>

---------------------------------------------------------------------------

Next ==
    \/ parse /\ Record
    \/ ShuntingYard_parse /\ Record
    \/ ShuntingYard_parse_end /\ Record
    \/ parse_e /\ Record
    \/ parse_e_loop /\ Record
    \/ parse_e_consume /\ Record
    \/ parse_e_unwind /\ Record
    \/ parse_e_return /\ Record
    \/ parse_p_value /\ Record
    \/ parse_p_paren /\ Record
    \/ parse_p_paren_close /\ Record
    \/ parse_p_op /\ Record
    \/ parse_p_consume /\ Record
    \/ parse_p_return /\ Record
    \/ parse_p_unexpected /\ Record
    \/ push_operator_pop /\ Record
    \/ push_operator_push /\ Record
    \/ push_operator_panic /\ Record

Spec == Init /\ [][Next]_vars

\* The code is sequential: a call that can take a step takes it.
SpecFair == Spec /\ WF_vars(Next)

---------------------------------------------------------------------------
(* The caller parses the same text a second time.  The ShuntingYard of the *)
(* call that returned is gone; what it left in memory is not cleared.      *)

parse_again ==
    /\ pc = "done"
    /\ calls = 0
    /\ calls' = 1
    /\ first' = [trace |-> trace, result |-> result]
    /\ trace' = <<>>
    /\ marks' = <<>>
    /\ pc' = "start"
    /\ result' = NoResult
    /\ UNCHANGED <<input, lexpos, next, op_stack, exp_stack, stack>>

NextTwice ==
    \/ Next
    \/ parse_again

\* the texts parsed twice
TwiceInputs ==
    Streams(MaxLen - 1)
    \cup UNION {Chains(k) : k \in 0..(MaxOps - 1)}
    \cup UNION {Signed(k) : k \in 1..(MaxOps - 1)}
    \cup UNION {Powers(k) : k \in 0..MaxPow}
    \cup UNION {Minuses(k) : k \in 0..MaxPow}
    \cup UNION {Nested(k) : k \in 0..MaxPow}
    \cup Groups
    \cup SignedGroups

InitTwice ==
    /\ input \in TwiceInputs
    /\ lexpos = 0
    /\ next = NoToken
    /\ op_stack = <<>>
    /\ exp_stack = <<>>
    /\ stack = <<>>
    /\ result = NoResult
    /\ pc = "start"
    /\ trace = <<>>
    /\ marks = <<>>
    /\ calls = 0
    /\ first = [trace |-> <<>>, result |-> NoResult]

SpecTwice == InitTwice /\ [][NextTwice]_vars

---------------------------------------------------------------------------
(* What the claims are stated with: the input as the grammar reads it, and *)
(* the trees the specification expects.                                    *)

Done == pc = "done"

\* the leaf the i-th symbol of the input stands for
V(i) == IF input[i] = "n" THEN Number("n", i) ELSE Ident("x", i)

\* the precedence table of the specification, for the binary operators
TablePrec(ch) ==
    CASE ch \in {"+", "-"} -> 1
      [] ch \in {"*", "/"} -> 2
      [] ch = "^" -> 4

\* a op1 b op2 c
IsChain2 ==
    /\ Len(input) = 5
    /\ input[1] \in Values /\ input[3] \in Values /\ input[5] \in Values
    /\ input[2] \in OPS_BINARY /\ input[4] \in OPS_BINARY

LeftTree2 == Binary(input[4], Binary(input[2], V(1), V(3), 2), V(5), 4)
RightTree2 == Binary(input[2], V(1), Binary(input[4], V(3), V(5), 4), 2)

\* C1: for operands a, b, c and binary operators op1, op2 of different
\* precedence, a op1 b op2 c parses to a op1 (b op2 c) when op2 binds tighter
\* and to (a op1 b) op2 c when op1 binds tighter.
C1_Precedence ==
    (Done /\ IsChain2 /\ TablePrec(input[2]) # TablePrec(input[4]))
        => result = Ok(IF TablePrec(input[4]) > TablePrec(input[2])
                       THEN RightTree2 ELSE LeftTree2)

C1_Witness ==
    Done /\ input = <<"n", "+", "n", "*", "n">> /\ result = Ok(RightTree2)

\* C2: for operands a, b, c and two left-associative operators of equal
\* precedence, a op1 b op2 c parses to (a op1 b) op2 c.
C2_LeftAssoc ==
    (Done /\ IsChain2
          /\ ({input[2], input[4]} \subseteq {"+", "-"}
              \/ {input[2], input[4]} \subseteq {"*", "/"}))
        => result = Ok(LeftTree2) /\ result # Ok(RightTree2)

C2_Witness ==
    Done /\ input = <<"n", "-", "n", "-", "n">> /\ result = Ok(LeftTree2)

\* a1 ^ a2 ^ ... ^ an, n >= 2
IsPowerChain ==
    /\ Len(input) >= 3
    /\ Len(input) % 2 = 1
    /\ \A i \in 1..Len(input) : IF i % 2 = 1 THEN input[i] \in Values ELSE input[i] = "^"

\* a_i ^ (a_i+1 ^ ( ... ^ a_n)), for the operand at position i
RECURSIVE RightNested(_)
RightNested(i) ==
    IF i >= Len(input) THEN V(i) ELSE Binary("^", V(i), RightNested(i + 2), i + 1)

\* C3: a chain of n >= 2 operands joined by ^ parses to the fully
\* right-nested tree.
C3_RightAssoc ==
    (Done /\ IsPowerChain) => result = Ok(RightNested(1))

C3_Witness ==
    Done /\ input = <<"n", "^", "x", "^", "n", "^", "x">> /\ result = Ok(RightNested(1))

\* - a ^ b
IsMinusPower ==
    /\ Len(input) = 4
    /\ input[1] = "-" /\ input[3] = "^"
    /\ input[2] \in Values /\ input[4] \in Values

\* C4 as claimed: - a ^ b parses to (-a) ^ b.
C4_Original ==
    (Done /\ IsMinusPower) => result = Ok(Binary("^", Prefix("-", V(2), 1), V(4), 3))

\* C4, amended: - a ^ b parses to -(a ^ b): `^` (precedence 4) does not
\* reduce the prefix minus (precedence 3) below it, is reduced first, and
\* the prefix minus is applied to the whole power.
C4_MinusPower ==
    (Done /\ IsMinusPower) => result = Ok(Prefix("-", Binary("^", V(2), V(4), 3), 1))

C4_Witness ==
    Done /\ input = <<"-", "n", "^", "n">> /\ result.kind = "Ok"

\* n >= 1 prefix minus and a value
IsMinusChain ==
    /\ Len(input) >= 2
    /\ input[Len(input)] \in Values
    /\ \A i \in 1..(Len(input) - 1) : input[i] = "-"

RECURSIVE Negated(_)
Negated(i) == IF i >= Len(input) THEN V(i) ELSE Prefix("-", Negated(i + 1), i)

\* C5: n >= 1 prefix minus followed by a primary x parse to n nested Prefix
\* nodes around x, and no push of a Prefix operator on a Prefix operator
\* looks up an associativity.
C5_NestedPrefix ==
    /\ (Done /\ IsMinusChain) => result = Ok(Negated(1))
    /\ result # Panic("panic_assoc")

\* ( a op1 b ) op2 c
IsGroupLeft ==
    /\ Len(input) = 7
    /\ input[1] = "(" /\ input[5] = ")"
    /\ input[2] \in Values /\ input[4] \in Values /\ input[7] \in Values
    /\ input[3] \in OPS_BINARY /\ input[6] \in OPS_BINARY

\* a op1 ( b op2 c )
IsGroupRight ==
    /\ Len(input) = 7
    /\ input[3] = "(" /\ input[7] = ")"
    /\ input[1] \in Values /\ input[4] \in Values /\ input[6] \in Values
    /\ input[2] \in OPS_BINARY /\ input[5] \in OPS_BINARY

\* C6: ( a op1 b ) op2 c parses to Parens(a op1 b) op2 c and
\* a op1 ( b op2 c ) to a op1 Parens(b op2 c), whatever the precedences.
C6_Grouping ==
    /\ (Done /\ IsGroupLeft)
          => result = Ok(Binary(input[6],
                                Parens(Binary(input[3], V(2), V(4), 3), 1), V(7), 6))
    /\ (Done /\ IsGroupRight)
          => result = Ok(Binary(input[2], V(1),
                                Parens(Binary(input[5], V(4), V(6), 5), 3), 2))

C6_Witness ==
    Done /\ input = <<"(", "n", "+", "n", ")", "*", "n">> /\ result.kind = "Ok"

\* The grammar  E --> P {B P},  P --> v | "(" E ")" | U P : the position
\* after the longest E (P) of s that starts at i, 0 when there is none.
RECURSIVE EEnd(_, _), PEnd(_, _), ERest(_, _)
PEnd(s, i) ==
    IF i > Len(s) THEN 0
    ELSE IF s[i] \in Values THEN i + 1
    ELSE IF s[i] = "("
         THEN LET j == EEnd(s, i + 1)
              IN  IF j # 0 /\ j <= Len(s) /\ s[j] = ")" THEN j + 1 ELSE 0
    ELSE IF s[i] \in OPS_PREFIX THEN PEnd(s, i + 1)
    ELSE 0
ERest(s, j) ==
    IF j <= Len(s) /\ s[j] \in OPS_BINARY
    THEN LET k == PEnd(s, j + 1) IN IF k = 0 THEN 0 ELSE ERest(s, k)
    ELSE j
EEnd(s, i) == LET j == PEnd(s, i) IN IF j = 0 THEN 0 ELSE ERest(s, j)

\* s is an expression of the grammar
IsE(s) == EEnd(s, 1) = Len(s) + 1

\* a complete expression, then a token that cannot continue it
HasTrailing(s) ==
    LET j == EEnd(s, 1) IN j # 0 /\ j <= Len(s) /\ s[j] \in Values \cup {"(", ")"}

\* C7: parse returns Ok only when the whole input is one expression, and a
\* complete expression followed by a value, `(` or `)` gives a ParseError.
C7_FullConsumption ==
    /\ result.kind = "Ok" => IsE(input)
    /\ (Done /\ HasTrailing(input)) => result.kind = "Err"

RParens(k) == [i \in 1..k |-> ")"]

\* an expression but for the closing parentheses missing at its end
Unterminated(s) == \E k \in 1..Len(s) : IsE(s \o RParens(k))

\* an expression, possibly in open groups, but for the operand missing after
\* its last binary operator
Dangling(s) ==
    /\ Len(s) >= 2
    /\ s[Len(s)] \in OPS_BINARY
    /\ s[Len(s) - 1] \in Values \cup {")"}
    /\ \E k \in 0..Len(s) : IsE(s \o <<"n">> \o RParens(k))

EndToken == Token("End", "", Len(input) + 1)

\* C8: an unterminated group gives the ParseError of expect(`)`) with the
\* expected `)`, the actual token and its position; a binary operator
\* followed by End gives a ParseError of parse_p; neither reaches a panic.
C8_MalformedInput ==
    /\ (Done /\ Unterminated(input)) => result = ExpectError(")", EndToken)
    /\ (Done /\ Dangling(input)) => result = UnexpectedError(EndToken)

\* C9: when parse_e has succeeded at the top level and End is the
\* lookahead, the expression stack holds one node and the operator stack the
\* outer Sentinel alone; neither assert_eq! of ShuntingYard::parse fails.
C9_Completion ==
    /\ (Running("parse", "expect_end") /\ next.typ = "End")
          => Len(exp_stack) = 1 /\ op_stack = <<Sentinel(U32Max)>>
    /\ result.kind = "Panic" => result.src \notin {"assert_exp_stack", "assert_op_stack"}

C9_Witness ==
    Running("parse", "expect_end") /\ next.typ = "End" /\ Len(input) = 7

Sentinels == Cardinality({i \in DOMAIN op_stack : op_stack[i].kind = "Sentinel"})

\* C10: during a parse the operator stack holds one Sentinel more than
\* there are open groups, and its bottom element is the outer Sentinel.
C10_SentinelCount ==
    pc = "run" => Sentinels = 1 + OpenGroups /\ op_stack[1] = Sentinel(U32Max)

C10_Witness ==
    pc = "run" /\ OpenGroups = 2 /\ Sentinels = 3 /\ Len(exp_stack) >= 1

\* C11: a second parse of the same text goes, step by step, through the
\* stack states of the first and ends in the same outcome; nothing the first
\* call left behind is seen by the second.
C11_Determinism ==
    calls = 1 =>
        /\ Len(trace) <= Len(first.trace)
        /\ trace # <<>> => trace[Len(trace)] = first.trace[Len(trace)]
        /\ Done => result = first.result /\ Len(trace) = Len(first.trace)

C11_Witness ==
    calls = 1 /\ Done /\ result.kind = "Ok" /\ Len(input) = 7 /\ first.result.kind = "Ok"

\* the in-order flattening of a tree: its symbols, and the positions of its
\* nodes (a Parens node stands at its `(`)
RECURSIVE Flatten(_), FlattenPos(_)
Flatten(t) ==
    CASE t.typ = "Binary" -> Flatten(t.kids[1]) \o <<t.val>> \o Flatten(t.kids[2])
      [] t.typ = "Prefix" -> <<t.val>> \o Flatten(t.kids[1])
      [] t.typ = "Postfix" -> Flatten(t.kids[1]) \o <<t.val>>
      [] t.typ = "Parens" -> <<"(">> \o Flatten(t.kids[1]) \o <<")">>
      [] OTHER -> <<t.val>>
FlattenPos(t) ==
    CASE t.typ = "Binary" -> FlattenPos(t.kids[1]) \o <<t.pos>> \o FlattenPos(t.kids[2])
      [] t.typ = "Prefix" -> <<t.pos>> \o FlattenPos(t.kids[1])
      [] t.typ = "Postfix" -> FlattenPos(t.kids[1]) \o <<t.pos>>
      [] t.typ = "Parens" -> <<t.pos>> \o FlattenPos(t.kids[1])
      [] OTHER -> <<t.pos>>

Ascending(q) == \A i \in 1..(Len(q) - 1) : q[i] < q[i + 1]

\* C12: the in-order flattening of a returned tree is the input, token by
\* token: no operand has moved across an operator.
C12_TokenOrder ==
    result.kind = "Ok" =>
        /\ Flatten(result.tree[1]) = input
        /\ Ascending(FlattenPos(result.tree[1]))

\* the operands pop_operator takes for an operator
Needs(op) == IF op.kind = "Binary" THEN 2 ELSE 1

\* pop_operator is about to run: from push_operator, or from the unwind loop
PopDue ==
    \/ Running("push_operator", "loop") /\ push_test(op_stack, Last(stack).op) = "true"
    \/ Running("parse_e", "unwind") /\ ~is_sentinel(op_stack)

\* C13: whenever pop_operator runs, the expression stack holds the operands
\* the operator on top needs, two for Binary and one for Prefix.
C13_OperandsAvailable ==
    PopDue => op_stack # <<>> /\ Len(exp_stack) >= Needs(Last(op_stack))

IsPrefix(p, q) == Len(p) <= Len(q) /\ SubSeq(q, 1, Len(p)) = p

\* C14: while a group is open, the operator-stack entries below its
\* Sentinel and the expression-stack entries present when the Sentinel was
\* pushed stay as they were.
C14_GroupFrame ==
    \A i \in DOMAIN marks :
        /\ IsPrefix(marks[i].ops, op_stack)
        /\ IsPrefix(marks[i].exps, exp_stack)

\* C15: pop_operator never runs with a Sentinel on top of the operator
\* stack, from push_operator or from the unwind loop; its Sentinel arm is
\* never reached.
C15_SentinelNeverReduced ==
    /\ PopDue => op_stack # <<>> /\ Last(op_stack).kind # "Sentinel"
    /\ result # Panic("sentinel")

C15_Witness ==
    /\ Running("push_operator", "loop")
    /\ PopDue
    /\ Len(op_stack) >= 2
    /\ op_stack[Len(op_stack) - 1].kind = "Sentinel"
    /\ Len(exp_stack) >= 2

\* - a op b   and   a op - b ,  op one of + - * /
IsMinusLeft ==
    /\ Len(input) = 4
    /\ input[1] = "-" /\ input[2] \in Values
    /\ input[3] \in {"+", "-", "*", "/"} /\ input[4] \in Values

IsMinusRight ==
    /\ Len(input) = 4
    /\ input[1] \in Values /\ input[2] \in {"+", "-", "*", "/"}
    /\ input[3] = "-" /\ input[4] \in Values

\* C16: for op in + - * /, - a op b parses to (-a) op b and a op - b to
\* a op (-b).
C16_PrefixBinds ==
    /\ (Done /\ IsMinusLeft)
          => result = Ok(Binary(input[3], Prefix("-", V(2), 1), V(4), 3))
    /\ (Done /\ IsMinusRight)
          => result = Ok(Binary(input[2], V(1), Prefix("-", V(4), 3), 2))

C16_Witness ==
    Done /\ input = <<"-", "n", "*", "x">> /\ result.kind = "Ok"

\* a call of next_token in this step has returned an error
LexerFails == lexpos' = lexpos + 1 /\ lexpos' <= Len(input) /\ input[lexpos'] = "?"

\* C17: the step in which next_token fails ends the parse with that error
\* and does nothing to the stacks after the failed call (the push of the
\* value arm of parse_p comes before its consume); after it no token is
\* read and no stack is touched.
C17_LexerFailure ==
    /\ [][LexerFails =>
            /\ pc' = "done"
            /\ result' = LexError(Token("LexError", "?", lexpos'))
            /\ op_stack' = op_stack
            /\ IF Running("parse_p", "entry") /\ next.typ \in {"Number", "Ident"}
               THEN exp_stack' = Append(exp_stack, Leaf(next))
               ELSE exp_stack' = exp_stack]_vars
    /\ [][pc = "done" /\ result.src = "lexer"
            => UNCHANGED <<lexpos, next, op_stack, exp_stack, result>>]_vars

C17_Witness ==
    Done /\ result = LexError(Token("LexError", "?", 4)) /\ Len(op_stack) = 2

\* this step calls fn: a new frame of fn is on top
Calls(fn) ==
    /\ pc' = "run"
    /\ Len(stack') = Len(stack) + 1
    /\ Last(stack').fn = fn /\ Last(stack').at = "entry"

\* a call of parse_e or parse_p from parse_p, or the call of parse_p in the
\* loop of parse_e
RecursiveCall ==
    \/ Running("parse_p", "entry") /\ Calls("parse_e")
    \/ Running("parse_p", "consume") /\ Calls("parse_p")
    \/ Running("parse_e", "consume") /\ Calls("parse_p")

\* an iteration of an unwind loop: the step stays where it is in parse_e
\* or push_operator
UnwindIteration ==
    /\ pc = "run" /\ pc' = "run"
    /\ stack # <<>> /\ stack' = stack
    /\ Last(stack).fn \in {"parse_e", "push_operator"}

\* C18: every parse call finishes; every iteration of the operator loop of
\* parse_e and every recursive call consumes a token, and every iteration
\* of an unwind loop shrinks the operator stack.
C18_Termination ==
    /\ <>Done
    /\ [][RecursiveCall => lexpos' = lexpos + 1]_vars
    /\ [][UnwindIteration => Len(op_stack') < Len(op_stack)]_vars

C18_Witness ==
    /\ Done /\ result.kind = "Ok" /\ Len(trace) >= 20
    /\ input \in SignedGroups /\ input[2] = "*" /\ input[5] = "+"

\* the recursion depth: the frames of parse_e and parse_p on the call stack
Depth == Cardinality({i \in DOMAIN stack : stack[i].fn \in {"parse_e", "parse_p"}})

\* the number of `(` minus the number of `)` among the first k tokens
OpenAt(text, k) ==
    Cardinality({i \in 1..k : text[i] = "("}) - Cardinality({i \in 1..k : text[i] = ")"})

\* the parenthesis depth of a token stream
ParenDepth(text) ==
    CHOOSE d \in 0..Len(text) :
        /\ \A k \in 0..Len(text) : OpenAt(text, k) <= d
        /\ \E k \in 0..Len(text) : OpenAt(text, k) = d

\* C19: there is a nesting limit: a token stream nested deeper than the
\* limit is not parsed to a tree, and the recursion stops at the limit
\* (two frames, parse_e and parse_p, per level and two for the outermost).
C19_NestingLimit ==
    \E limit \in 1..(MaxPow - 1) :
        ParenDepth(input) > limit =>
            /\ Depth <= 2 * limit + 2
            /\ result.kind # "Ok"

\* every node of t carries the position of the token it was built from
RECURSIVE Positioned(_)
Positioned(t) ==
    /\ t.pos # U32Max
    /\ t.pos \in 1..Len(input)
    /\ CASE t.typ = "Binary" -> t.val \in OPS_BINARY /\ input[t.pos] = t.val
         [] t.typ = "Prefix" -> t.val \in OPS_PREFIX /\ input[t.pos] = t.val
         [] t.typ = "Parens" ->
              /\ input[t.pos] = "("
              /\ \A i \in DOMAIN FlattenPos(t.kids[1]) : FlattenPos(t.kids[1])[i] > t.pos
         [] t.typ \in {"Number", "Ident"} -> t.val \in Values /\ input[t.pos] = t.val
         [] OTHER -> FALSE
    /\ \A i \in DOMAIN t.kids : Positioned(t.kids[i])

Distinct(q) == \A i, j \in DOMAIN q : i # j => q[i] # q[j]

\* C20: in a returned tree every Binary and Prefix node carries the
\* position of its operator token, every Parens node that of its `(`, every
\* Number and Ident node that of its own token; no two nodes share a token
\* and the outer Sentinel's position is on no node.
C20_Positions ==
    result.kind = "Ok" =>
        /\ Positioned(result.tree[1])
        /\ Distinct(FlattenPos(result.tree[1]))

C20_Witness ==
    /\ Done /\ result.kind = "Ok"
    /\ input = <<"n", "*", "(", "x", "+", "-", "n", ")">>
    /\ result.tree[1].kids[2].typ = "Parens" /\ result.tree[1].kids[2].pos = 3

=============================================================================
